---- MODULE Spec2Model ----
(***************************************************************************)
(* Local development HTTP server for the Amazon Connect AI Assistant.      *)
(* Two entry points are modelled side by side, driven by the same          *)
(* environment events:                                                     *)
(*   "server"  src/server.py         TCPServer + MyHTTPRequestHandler      *)
(*   "simple"  src/simple-server.py  TCPServer + SimpleHTTPRequestHandler  *)
(* The request handler's inherited behaviour (http.server, socketserver of *)
(* the Python standard library) is modelled as the library executes it;    *)
(* each such definition names the library function it follows.             *)
(***************************************************************************)
EXTENDS Integers, Sequences, FiniteSets, TLC

\* ---------------------------------------------------------------- bounds
\* Connections a run may open.
MaxConns == 3

\* ------------------------------------------------------------- constants
\* PORT = 8080 (both scripts, line 12).
PORT == 8080

Variants == {"server", "simple"}

\* Mutation: simple-server.py left with server.py's handler class.
C2_HandlerClass_copied(v) == "MyHTTPRequestHandler"

\* The handler class each script passes to socketserver.TCPServer.
HandlerClass(v) ==
  IF v = "server" THEN "MyHTTPRequestHandler" ELSE "SimpleHTTPRequestHandler"

\* csp_policy: the adjacent string literals of end_headers, concatenated.
csp_policy ==
  "default-src 'self'; script-src 'self' 'unsafe-inline' 'unsafe-eval' https://*.amazonaws.com https://*.awsapps.com https://*.my.connect.aws https://github.com https://connect-streams.s3.amazonaws.com https://cdn.jsdelivr.net; style-src 'self' 'unsafe-inline' https://*.amazonaws.com https://*.awsapps.com https://*.my.connect.aws; connect-src 'self' https: wss: https://*.amazonaws.com https://*.awsapps.com https://*.my.connect.aws; img-src 'self' data: https:; font-src 'self' https: data:; media-src 'self' https: data:; worker-src 'self' blob:; frame-src 'self' https://*.amazonaws.com https://*.awsapps.com https://*.my.connect.aws; child-src 'self' https://*.amazonaws.com https://*.awsapps.com https://*.my.connect.aws;"

\* The five send_header calls of MyHTTPRequestHandler.end_headers, in order.
InjectedHeaders ==
  << [name |-> "Access-Control-Allow-Origin", value |-> "*"],
     [name |-> "Access-Control-Allow-Methods", value |-> "GET, POST, OPTIONS"],
     [name |-> "Access-Control-Allow-Headers", value |-> "Content-Type"],
     [name |-> "Content-Security-Policy", value |-> csp_policy],
     [name |-> "X-Frame-Options", value |-> "SAMEORIGIN"] >>

InjectedNames == { InjectedHeaders[i].name : i \in 1..Len(InjectedHeaders) }

\* ------------------------------------------------------ the served root
\* os.chdir(dirname(abspath(__file__))): the handler serves os.getcwd().
\* The tree below is the content of the script's directory in this model:
\* a node is a readable file, a file open() refuses (PermissionError), a
\* directory, or absent.  Paths are sequences of components under the root.
NoNode == [kind |-> "none", data |-> "", mtime |-> ""]

FsNode(p) ==
  CASE p = <<>> ->
         [kind |-> "dir", data |-> "", mtime |-> ""]
    [] p = <<"index.html">> ->
         [kind |-> "file", data |-> "<html>assistant</html>", mtime |-> "t1"]
    [] p = <<"app.js">> ->
         [kind |-> "file", data |-> "connect.core.initCCP()", mtime |-> "t2"]
    [] p = <<"secret.txt">> ->
         [kind |-> "unreadable", data |-> "key", mtime |-> "t3"]
    [] p = <<"docs">> ->
         [kind |-> "dir", data |-> "", mtime |-> ""]
    [] p = <<"docs", "guide.txt">> ->
         [kind |-> "file", data |-> "guide", mtime |-> "t4"]
    [] OTHER -> NoNode

\* The directory the process was started from holds none of these files.
LaunchNode(p) == IF p = <<>> THEN [kind |-> "dir", data |-> "", mtime |-> ""] ELSE NoNode

\* What the handler finds at p: SimpleHTTPRequestHandler.directory is the
\* working directory at the time the handler is constructed.
Lookup(cwd, p) == IF cwd = "scriptdir" THEN FsNode(p) ELSE LaunchNode(p)

\* posixpath.normpath on an absolute path, then translate_path's filter of
\* the components that are empty, "." or "..": ".." removes the component
\* before it, and at the root it is dropped.
RECURSIVE normpath(_, _)
normpath(segs, acc) ==
  IF segs = <<>> THEN acc
  ELSE LET s == Head(segs) IN
       IF s = "" \/ s = "." THEN normpath(Tail(segs), acc)
       ELSE IF s = ".."
       THEN normpath(Tail(segs), IF acc = <<>> THEN acc ELSE SubSeq(acc, 1, Len(acc) - 1))
       ELSE normpath(Tail(segs), Append(acc, s))

\* SimpleHTTPRequestHandler.translate_path: the query is abandoned, the path
\* normalised, and an explicit trailing slash kept.
translate_path(path) ==
  [segs |-> normpath(path.segs, <<>>), slash |-> path.slash, nul |-> path.nul]

\* SimpleHTTPRequestHandler.guess_type, by the extension of the last component.
guess_type(segs) ==
  LET name == IF segs = <<>> THEN "" ELSE segs[Len(segs)] IN
  CASE name \in {"index.html"} -> "text/html"
    [] name \in {"app.js", "does-not-exist.js"} -> "text/javascript"
    [] name \in {"secret.txt", "guide.txt"} -> "text/plain"
    [] OTHER -> "application/octet-stream"

\* ------------------------------------------------------------- requests
\* A request as the handler reads it from the connection:
\*   raw     "line" a request line, "toolong" a line over 65536 bytes,
\*           "eof" the client closed without sending, "blank" an empty line
\*   nwords  words on the request line (2: no version, an HTTP/0.9 request)
\*   version the last word when nwords >= 3
\*   ims     an If-Modified-Since header (without If-None-Match) whose date
\*           is not before the file's modification time
Path(segs, slash) == [segs |-> segs, slash |-> slash, nul |-> FALSE]

Req(method, path, nwords, version, ims) ==
  [raw |-> "line", method |-> method, path |-> path, nwords |-> nwords,
   version |-> version, ims |-> ims]

P_root == Path(<<>>, TRUE)
P_index == Path(<<"index.html">>, FALSE)
P_js == Path(<<"app.js">>, FALSE)
P_missing == Path(<<"does-not-exist.js">>, FALSE)

Requests ==
  { Req("GET", P_index, 3, "HTTP/1.0", FALSE),
    Req("GET", P_index, 3, "HTTP/1.1", TRUE),
    Req("GET", P_index, 2, "", FALSE),
    Req("GET", P_js, 3, "HTTP/1.1", FALSE),
    Req("GET", P_root, 3, "HTTP/1.1", FALSE),
    Req("GET", Path(<<"secret.txt">>, FALSE), 3, "HTTP/1.1", FALSE),
    Req("GET", Path(<<"docs">>, FALSE), 3, "HTTP/1.1", FALSE),
    Req("GET", Path(<<"docs">>, TRUE), 3, "HTTP/1.1", FALSE),
    Req("GET", Path(<<"docs", "guide.txt">>, FALSE), 3, "HTTP/1.0", TRUE),
    Req("GET", Path(<<"..", "..", "index.html">>, FALSE), 3, "HTTP/1.1", FALSE),
    Req("GET", Path(<<"index.html">>, TRUE), 3, "HTTP/1.1", FALSE),
    Req("GET", P_missing, 3, "HTTP/1.1", FALSE),
    Req("GET", P_missing, 3, "HTTP/1.0", TRUE),
    Req("GET", P_missing, 2, "", FALSE),
    Req("GET", P_js, 2, "", TRUE),
    Req("GET", [segs |-> <<"a%00b">>, slash |-> FALSE, nul |-> TRUE], 3, "HTTP/1.1", FALSE),
    Req("HEAD", P_index, 3, "HTTP/1.1", FALSE),
    Req("HEAD", P_missing, 3, "HTTP/1.1", FALSE),
    Req("POST", P_index, 3, "HTTP/1.1", FALSE),
    Req("OPTIONS", P_root, 3, "HTTP/1.1", FALSE),
    Req("POST", P_index, 2, "", FALSE),
    Req("GET", P_index, 3, "HTTX/1.1", FALSE),
    Req("GET", P_index, 3, "HTTP/2.0", FALSE),
    Req("GET", P_index, 4, "HTTP/1.1", FALSE),
    Req("GET", P_index, 1, "", FALSE),
    [Req("GET", P_index, 3, "HTTP/1.1", FALSE) EXCEPT !.raw = "toolong"],
    [Req("GET", P_index, 0, "", FALSE) EXCEPT !.raw = "blank"],
    [Req("GET", P_index, 0, "", FALSE) EXCEPT !.raw = "eof"] }

\* No request read yet.
NoReq == [Req("", P_root, 0, "", FALSE) EXCEPT !.raw = "none"]

\* ------------------------------------------------------------ responses
\* What the handler writes to the connection: the status line (head), the
\* header lines in the order sent, the blank line that ends them, the body.
NoBody == [kind |-> "none", data |-> ""]

NoResp ==
  [head |-> FALSE, code |-> 0, reason |-> "", headers |-> <<>>, blank |-> FALSE,
   body |-> NoBody]

\* BaseHTTPRequestHandler.responses: the short message of each status used.
Reason(code) ==
  CASE code = 200 -> "OK"
    [] code = 301 -> "Moved Permanently"
    [] code = 304 -> "Not Modified"
    [] code = 400 -> "Bad Request"
    [] code = 404 -> "Not Found"
    [] code = 414 -> "Request-URI Too Long"
    [] code = 501 -> "Not Implemented"
    [] code = 505 -> "HTTP Version Not Supported"
    [] OTHER -> ""

\* BaseHTTPRequestHandler.send_response_only: no status line is written
\* for a request whose request_version is HTTP/0.9.
send_response_only(ver, code, message) ==
  IF ver # "HTTP/0.9"
  THEN [NoResp EXCEPT !.head = TRUE, !.code = code, !.reason = message]
  ELSE [NoResp EXCEPT !.code = code]

\* BaseHTTPRequestHandler.send_header: buffered unless request_version is
\* HTTP/0.9.
send_header(ver, resp, name, value) ==
  IF ver # "HTTP/0.9"
  THEN [resp EXCEPT !.headers = Append(@, [name |-> name, value |-> value])]
  ELSE resp

\* BaseHTTPRequestHandler.send_response: status line, Server, Date.
send_response(ver, code, message) ==
  send_header(ver,
    send_header(ver, send_response_only(ver, code, message),
                "Server", "SimpleHTTP/0.6 Python/3"),
    "Date", "now")

\* BaseHTTPRequestHandler.end_headers: the blank line, then flush.
base_end_headers(ver, resp) ==
  IF ver # "HTTP/0.9" THEN [resp EXCEPT !.blank = TRUE] ELSE resp

RECURSIVE send_headers(_, _, _)
send_headers(ver, resp, hs) ==
  IF hs = <<>> THEN resp
  ELSE send_headers(ver, send_header(ver, resp, Head(hs).name, Head(hs).value), Tail(hs))

\* Mutation: the headers are injected into successful responses only.
C1_end_headers_success_only(ver, resp) ==
  base_end_headers(ver,
    IF resp.code = 200 THEN send_headers(ver, resp, InjectedHeaders) ELSE resp)

\* Mutation: the override never calls super().end_headers().
C8_end_headers_without_super(ver, resp) ==
  send_headers(ver, resp, InjectedHeaders)

\* MyHTTPRequestHandler.end_headers (server.py): five send_header calls,
\* then super().end_headers().
MyHTTPRequestHandler_end_headers(ver, resp) ==
  base_end_headers(ver, send_headers(ver, resp, InjectedHeaders))

\* SimpleHTTPRequestHandler does not override end_headers (simple-server.py
\* passes the library class itself).
SimpleHTTPRequestHandler_end_headers(ver, resp) ==
  base_end_headers(ver, resp)

\* self.end_headers() as dispatched on the handler class of the variant.
end_headers(v, ver, resp) ==
  IF HandlerClass(v) = "MyHTTPRequestHandler"
  THEN MyHTTPRequestHandler_end_headers(ver, resp)
  ELSE SimpleHTTPRequestHandler_end_headers(ver, resp)

\* The error page of send_error (error_message_format filled in).
ErrorContent(code, message) == "Error response " \o ToString(code) \o " " \o message

\* BaseHTTPRequestHandler.send_error.
send_error(v, ver, command, code, message) ==
  LET r0 == send_header(ver, send_response(ver, code, message), "Connection", "close")
      hasBody == code >= 200 /\ code \notin {204, 205, 304}
      content == ErrorContent(code, message)
      r1 == IF hasBody
            THEN send_header(ver,
                   send_header(ver, r0, "Content-Type", "text/html;charset=utf-8"),
                   "Content-Length", ToString(Len(content)))
            ELSE r0
      r2 == end_headers(v, ver, r1)
  IN IF command # "HEAD" /\ hasBody
     THEN [r2 EXCEPT !.body = [kind |-> "error", data |-> content]]
     ELSE r2

\* The outcome of handling one connection: a response written, the
\* connection closed with nothing written, an exception raised out of the
\* handler, or the client gone before the response could be written.
Responded(resp) == [kind |-> "response", resp |-> resp]
Closed == [kind |-> "closed", resp |-> NoResp]
Raised == [kind |-> "exception", resp |-> NoResp]
Disconnected == [kind |-> "disconnected", resp |-> NoResp]

RECURSIVE UrlOf(_)
UrlOf(segs) == IF segs = <<>> THEN "" ELSE "/" \o Head(segs) \o UrlOf(Tail(segs))

\* SimpleHTTPRequestHandler.list_directory: a generated HTML listing.
list_directory(v, ver, segs) ==
  LET listing == "Directory listing for " \o UrlOf(segs) \o "/"
      r0 == send_header(ver,
              send_header(ver, send_response(ver, 200, Reason(200)),
                          "Content-type", "text/html; charset=utf-8"),
              "Content-Length", ToString(Len(listing)))
  IN [resp |-> end_headers(v, ver, r0), file |-> [kind |-> "listing", data |-> listing],
      exc |-> FALSE]

\* send_head from "ctype = self.guess_type(path)" on: the regular-file part.
send_file(v, cwd, ver, command, fp, ims) ==
  LET node == IF fp.nul THEN NoNode ELSE Lookup(cwd, fp.segs)
      ctype == guess_type(fp.segs)
  IN IF fp.slash
     THEN [resp |-> send_error(v, ver, command, 404, "File not found"),
           file |-> NoBody, exc |-> FALSE]
     ELSE IF fp.nul
     THEN \* open() raises ValueError (embedded null byte), which is no OSError
          [resp |-> NoResp, file |-> NoBody, exc |-> TRUE]
     ELSE IF node.kind # "file"
     THEN \* open() raises OSError: absent, a directory, or permission denied
          [resp |-> send_error(v, ver, command, 404, "File not found"),
           file |-> NoBody, exc |-> FALSE]
     ELSE IF ims
     THEN [resp |-> end_headers(v, ver, send_response(ver, 304, Reason(304))),
           file |-> NoBody, exc |-> FALSE]
     ELSE [resp |-> end_headers(v, ver,
                      send_header(ver,
                        send_header(ver,
                          send_header(ver, send_response(ver, 200, Reason(200)),
                                      "Content-type", ctype),
                          "Content-Length", ToString(Len(node.data))),
                        "Last-Modified", node.mtime)),
           file |-> [kind |-> "file", data |-> node.data], exc |-> FALSE]

\* SimpleHTTPRequestHandler.send_head.
send_head(v, cwd, ver, command, reqpath, ims) ==
  LET path == translate_path(reqpath)
      isdir == ~path.nul /\ Lookup(cwd, path.segs).kind = "dir"
      isfile(p) == Lookup(cwd, p).kind \in {"file", "unreadable"}
      html == Append(path.segs, "index.html")
      htm == Append(path.segs, "index.htm")
  IN IF isdir
     THEN IF ~reqpath.slash
          THEN [resp |-> end_headers(v, ver,
                           send_header(ver,
                             send_header(ver, send_response(ver, 301, Reason(301)),
                                         "Location", UrlOf(reqpath.segs) \o "/"),
                             "Content-Length", "0")),
                file |-> NoBody, exc |-> FALSE]
          ELSE IF isfile(html)
          THEN send_file(v, cwd, ver, command, [path EXCEPT !.segs = html, !.slash = FALSE], ims)
          ELSE IF isfile(htm)
          THEN send_file(v, cwd, ver, command, [path EXCEPT !.segs = htm, !.slash = FALSE], ims)
          ELSE list_directory(v, ver, path.segs)
     ELSE send_file(v, cwd, ver, command, path, ims)

\* Mutation: the headers are sent and the file is never copied.
C7_do_GET_without_copy(v, cwd, ver, reqpath, ims) ==
  LET h == send_head(v, cwd, ver, "GET", reqpath, ims) IN
  IF h.exc THEN Raised ELSE Responded(h.resp)

\* SimpleHTTPRequestHandler.do_GET: the file is copied after the headers.
do_GET(v, cwd, ver, reqpath, ims) ==
  LET h == send_head(v, cwd, ver, "GET", reqpath, ims) IN
  IF h.exc THEN Raised
  ELSE Responded(IF h.file.kind # "none" THEN [h.resp EXCEPT !.body = h.file] ELSE h.resp)

\* SimpleHTTPRequestHandler.do_HEAD: the file is closed, nothing copied.
do_HEAD(v, cwd, ver, reqpath, ims) ==
  LET h == send_head(v, cwd, ver, "HEAD", reqpath, ims) IN
  IF h.exc THEN Raised ELSE Responded(h.resp)

\* A request_version parse_request accepts: "HTTP/" major "." minor, digits.
ValidVersion(version) == version \in {"HTTP/1.0", "HTTP/1.1", "HTTP/2.0"}

\* BaseHTTPRequestHandler.parse_request.  request_version starts as
\* default_request_version (HTTP/0.9) and is set from the request line only
\* once the version has been accepted, so the errors sent before that are
\* written in the HTTP/0.9 form.  ok: the request goes on to its do_ method;
\* otherwise out is what was sent.
parse_request(v, r) ==
  LET ver0 == "HTTP/0.9"
      ver == IF r.nwords >= 3 THEN r.version ELSE ver0
  IN IF r.nwords = 0
     THEN [ok |-> FALSE, ver |-> ver0, out |-> Closed]
     ELSE IF r.nwords >= 3 /\ ~ValidVersion(r.version)
     THEN [ok |-> FALSE, ver |-> ver0,
           out |-> Responded(send_error(v, ver0, "", 400, "Bad request version"))]
     ELSE IF r.nwords >= 3 /\ r.version = "HTTP/2.0"
     THEN [ok |-> FALSE, ver |-> ver0,
           out |-> Responded(send_error(v, ver0, "", 505, "Invalid HTTP version"))]
     ELSE IF ~(2 <= r.nwords /\ r.nwords <= 3)
     THEN [ok |-> FALSE, ver |-> ver,
           out |-> Responded(send_error(v, ver, "", 400, "Bad request syntax"))]
     ELSE IF r.nwords = 2 /\ r.method # "GET"
     THEN [ok |-> FALSE, ver |-> ver,
           out |-> Responded(send_error(v, ver, "", 400, "Bad HTTP/0.9 request type"))]
     ELSE [ok |-> TRUE, ver |-> ver, out |-> Closed]

\* BaseHTTPRequestHandler.handle_one_request, for the request r read from
\* the connection, with the served directory cwd.
handle_one_request(v, cwd, r) ==
  IF r.raw = "toolong"
  THEN Responded(send_error(v, "", "", 414, Reason(414)))
  ELSE IF r.raw = "eof"
  THEN Closed
  ELSE LET p == parse_request(v, r) IN
       IF ~p.ok THEN p.out
       ELSE IF r.method = "GET" THEN do_GET(v, cwd, p.ver, r.path, r.ims)
       ELSE IF r.method = "HEAD" THEN do_HEAD(v, cwd, p.ver, r.path, r.ims)
       ELSE Responded(send_error(v, p.ver, r.method, 501, "Unsupported method"))

\* ---------------------------------------------------------- the process
VARIABLES
  proc,     \* per variant: the state of the running script (see InitProc)
  nconn,    \* connections clients have opened so far (ids 1..nconn)
  sent,     \* ids of the connections whose client has sent its request
  lastReq   \* the request the handlers read most recently

vars == <<proc, nconn, sent, lastReq>>

ConnIds == 1..MaxConns

\* main() before its first statement.
\*   pc        where main() is: "chdir", "bind", "banner", "browser",
\*             "opening" (inside webbrowser.open), "ready", "serving"
\*             (serve_forever waiting in select), "handling" (inside the
\*             handler of connection cur), "stopping" (the except clause),
\*             "exited"
\*   listener  the listening socket: "none", "listening", "closed"
\*   exit      "running", "success" (status 0), "error" (uncaught
\*             exception, status 1), "sigint" (uncaught KeyboardInterrupt)
\*   port      the port the listening socket is bound to (0: none)
\*   url       the address handed to webbrowser.open
\*   events    the startup steps taken, in order
\*   backlog   connections the kernel completed, not yet accepted
\*   log       per connection: "none", "response", "closed", "exception"
\*             (handler raised, handle_error), "aborted" (interrupted)
InitProc ==
  [pc |-> "chdir", cwd |-> "launchdir", listener |-> "none", binds |-> 0,
   port |-> 0, url |-> [host |-> "", port |-> 0],
   exit |-> "running", opens |-> 0, events |-> <<>>, stopMsg |-> FALSE,
   backlog |-> <<>>, cur |-> 0,
   attempts |-> [i \in ConnIds |-> 0],
   log |-> [i \in ConnIds |-> "none"],
   last |-> Closed]

Init ==
  /\ proc = [v \in Variants |-> InitProc]
  /\ nconn = 0
  /\ sent = {}
  /\ lastReq = NoReq

\* TCPServer.server_close: the listening socket is closed and the
\* connections waiting in its backlog are dropped with it.
server_close(p) == [p EXCEPT !.listener = "closed", !.backlog = <<>>]

\* The interpreter's exit once main() is left: 0 on return, 1 on an
\* uncaught exception, death by SIGINT on an uncaught KeyboardInterrupt.
process_exit(p, exc) ==
  [p EXCEPT !.pc = "exited", !.cur = 0,
            !.exit = CASE exc = "none" -> "success"
                       [] exc = "KeyboardInterrupt" -> "sigint"
                       [] OTHER -> "error"]

\* Mutation: server_close() called after the try statement instead of by a
\* with block, so an exception in flight skips it.
C10_exit_without_close(p, exc) ==
  IF exc = "none" THEN process_exit(server_close(p), exc) ELSE process_exit(p, exc)

\* Leaving the with block (TCPServer.__exit__ calls server_close), on
\* return or with the exception exc in flight.
with_exit(p, exc) == process_exit(server_close(p), exc)

\* os.chdir(os.path.dirname(os.path.abspath(__file__)))
main_chdir(p) ==
  [p EXCEPT !.pc = "bind", !.cwd = "scriptdir", !.events = Append(@, "chdir")]

\* Mutation: a failed bind falls back to the next port.
C3_bind_with_fallback(p, port, free) ==
  IF free
  THEN [p EXCEPT !.pc = "banner", !.listener = "listening", !.binds = @ + 1,
                 !.port = port, !.events = Append(@, "bind")]
  ELSE [p EXCEPT !.pc = "banner", !.listener = "listening", !.binds = @ + 2,
                 !.port = port + 1, !.events = Append(@, "bind_failed")]

\* socketserver.TCPServer(("", PORT), Handler): server_bind and
\* server_activate; on failure the constructor closes the socket and
\* re-raises, before the with block is entered.
TCPServer_init(p, port, free) ==
  IF free
  THEN [p EXCEPT !.pc = "banner", !.listener = "listening", !.binds = @ + 1,
                 !.port = port, !.events = Append(@, "bind")]
  ELSE process_exit([server_close(p) EXCEPT !.binds = @ + 1,
                                            !.events = Append(@, "bind_failed")],
                    "OSError")

\* Mutation: webbrowser.open placed after serve_forever(), which never
\* returns to it.
C5_banner_then_serve(p, ok) ==
  IF ok THEN [p EXCEPT !.pc = "ready"] ELSE with_exit(p, "UnicodeEncodeError")

\* The three print calls before the browser is opened; a print that raises
\* (a console that cannot encode the text) leaves the with block.
print_banner(p, ok) ==
  IF ok THEN [p EXCEPT !.pc = "browser"] ELSE with_exit(p, "UnicodeEncodeError")

\* webbrowser.open(f'http://localhost:{PORT}') is entered ...
browser_call(p, port) ==
  [p EXCEPT !.pc = "opening", !.opens = @ + 1,
            !.url = [host |-> "localhost", port |-> port],
            !.events = Append(@, "browser")]

\* ... and returns, or raises.
browser_return(p, ok) ==
  IF ok THEN [p EXCEPT !.pc = "ready"] ELSE with_exit(p, "Exception")

\* print("Press Ctrl+C ..."), then httpd.serve_forever() is entered.
serve_forever(p) ==
  [p EXCEPT !.pc = "serving", !.events = Append(@, "serve")]

\* BaseServer._handle_request_noblock: get_request and process_request;
\* the one thread of the process is inside the handler until it returns.
get_request(p) ==
  LET c == Head(p.backlog) IN
  [p EXCEPT !.pc = "handling", !.cur = c, !.backlog = Tail(@),
            !.attempts[c] = @ + 1]

\* Mutation: the handler's exception is re-raised out of serve_forever.
C6_error_propagates(p, out) ==
  with_exit([p EXCEPT !.log[p.cur] = "exception", !.last = out], "Exception")

\* "except Exception: handle_error(); shutdown_request()": the traceback is
\* printed and the loop goes on.  out: what became of the connection.
handle_error(p, out) ==
  [p EXCEPT !.pc = "serving", !.log[p.cur] = "exception", !.cur = 0, !.last = out]

\* The handler has read request r from connection cur.  gone: the client
\* has disconnected, so writing the response raises BrokenPipeError.
finish_request(v, p, r, gone) ==
  LET out == handle_one_request(v, p.cwd, r) IN
  IF out.kind = "exception" THEN handle_error(p, Raised)
  ELSE IF gone /\ out.kind = "response" THEN handle_error(p, Disconnected)
  ELSE [p EXCEPT !.pc = "serving", !.log[p.cur] = out.kind, !.cur = 0, !.last = out]

\* KeyboardInterrupt raised in the main thread, wherever it is.  Only
\* httpd.serve_forever() is inside the try block.
KeyboardInterrupt(p) ==
  CASE p.pc \in {"chdir", "bind"} -> process_exit(p, "KeyboardInterrupt")
    [] p.pc \in {"banner", "browser", "opening", "ready"} ->
         with_exit(p, "KeyboardInterrupt")
    [] p.pc = "serving" -> [p EXCEPT !.pc = "stopping"]
    [] p.pc = "handling" ->
         \* "except: shutdown_request(request); raise", then main's except
         [p EXCEPT !.pc = "stopping", !.log[p.cur] = "aborted", !.cur = 0]
    [] p.pc = "stopping" -> with_exit(p, "KeyboardInterrupt")
    [] OTHER -> p

\* except KeyboardInterrupt: print("Server stopped"); the with block and
\* main() end normally.
main_stopped(p) == with_exit([p EXCEPT !.stopMsg = TRUE], "none")

\* ---------------------------------------------------------------- steps
\* Each step is taken by every variant that is at that point of main().
At(pcs) == { v \in Variants : proc[v].pc \in pcs }

Chdir ==
  /\ At({"chdir"}) # {}
  /\ proc' = [v \in Variants |->
                IF proc[v].pc = "chdir" THEN main_chdir(proc[v]) ELSE proc[v]]
  /\ UNCHANGED <<nconn, sent, lastReq>>

Bind ==
  /\ At({"bind"}) # {}
  /\ \E free \in BOOLEAN :
       proc' = [v \in Variants |->
                  IF proc[v].pc = "bind" THEN TCPServer_init(proc[v], PORT, free)
                  ELSE proc[v]]
  /\ UNCHANGED <<nconn, sent, lastReq>>

PrintBanner ==
  /\ At({"banner"}) # {}
  /\ \E ok \in BOOLEAN :
       proc' = [v \in Variants |->
                  IF proc[v].pc = "banner" THEN print_banner(proc[v], ok) ELSE proc[v]]
  /\ UNCHANGED <<nconn, sent, lastReq>>

BrowserCall ==
  /\ At({"browser"}) # {}
  /\ proc' = [v \in Variants |->
                IF proc[v].pc = "browser" THEN browser_call(proc[v], PORT) ELSE proc[v]]
  /\ UNCHANGED <<nconn, sent, lastReq>>

BrowserReturn ==
  /\ At({"opening"}) # {}
  /\ \E ok \in BOOLEAN :
       proc' = [v \in Variants |->
                  IF proc[v].pc = "opening" THEN browser_return(proc[v], ok)
                  ELSE proc[v]]
  /\ UNCHANGED <<nconn, sent, lastReq>>

StartServing ==
  /\ At({"ready"}) # {}
  /\ proc' = [v \in Variants |->
                IF proc[v].pc = "ready" THEN serve_forever(proc[v]) ELSE proc[v]]
  /\ UNCHANGED <<nconn, sent, lastReq>>

\* A client connects to port 8080: the kernel completes the connection as
\* soon as the socket listens, whether or not the accept loop has started.
\* The client may send its request at once or stay silent.
Connect ==
  /\ nconn < MaxConns
  /\ \E v \in Variants : proc[v].listener = "listening"
  /\ nconn' = nconn + 1
  /\ proc' = [v \in Variants |->
                IF proc[v].listener = "listening"
                THEN [proc[v] EXCEPT !.backlog = Append(@, nconn + 1)]
                ELSE proc[v]]
  /\ \E now \in BOOLEAN : sent' = IF now THEN sent \cup {nconn + 1} ELSE sent
  /\ UNCHANGED lastReq

Pending(p, c) == p.cur = c \/ \E i \in 1..Len(p.backlog) : p.backlog[i] = c

\* A silent client sends its request.
ClientSend ==
  /\ \E c \in 1..nconn :
       /\ c \notin sent
       /\ \E v \in Variants : Pending(proc[v], c)
       /\ sent' = sent \cup {c}
  /\ UNCHANGED <<proc, nconn, lastReq>>

Accept ==
  /\ \E v \in Variants : proc[v].pc = "serving" /\ proc[v].backlog # <<>>
  /\ proc' = [v \in Variants |->
                IF proc[v].pc = "serving" /\ proc[v].backlog # <<>>
                THEN get_request(proc[v]) ELSE proc[v]]
  /\ UNCHANGED <<nconn, sent, lastReq>>

\* The handler's readline returns once the client has sent something.
Handle ==
  /\ \E v \in Variants : proc[v].pc = "handling" /\ proc[v].cur \in sent
  /\ \E r \in Requests, gone \in BOOLEAN :
       /\ proc' = [v \in Variants |->
                     IF proc[v].pc = "handling" /\ proc[v].cur \in sent
                     THEN finish_request(v, proc[v], r, gone) ELSE proc[v]]
       /\ lastReq' = r
  /\ UNCHANGED <<nconn, sent>>

\* Ctrl-C: SIGINT reaches every process that is still running.
Interrupt ==
  /\ At({"exited"}) # Variants
  /\ proc' = [v \in Variants |-> KeyboardInterrupt(proc[v])]
  /\ UNCHANGED <<nconn, sent, lastReq>>

Finish ==
  /\ At({"stopping"}) # {}
  /\ proc' = [v \in Variants |->
                IF proc[v].pc = "stopping" THEN main_stopped(proc[v]) ELSE proc[v]]
  /\ UNCHANGED <<nconn, sent, lastReq>>

Next ==
  \/ Chdir \/ Bind \/ PrintBanner \/ BrowserCall \/ BrowserReturn \/ StartServing
  \/ Connect \/ ClientSend \/ Accept \/ Handle \/ Interrupt \/ Finish

Spec == Init /\ [][Next]_vars

\* =============================================================== claims
\* The response most recently written by variant v, if any.
LastResponded(v) == proc[v].last.kind = "response"
LastResp(v) == proc[v].last.resp

\* The injected headers of a response, in the order they appear.
InjectedOf(resp) == SelectSeq(resp.headers, LAMBDA h : h.name \in InjectedNames)

\* A request line the library answers in the HTTP/0.9 form (no status line,
\* no header block): no version word, or a version it rejects.
HTTP09Form(r) ==
  /\ r.raw = "line"
  /\ \/ r.nwords <= 2
     \/ ~ValidVersion(r.version)
     \/ r.version = "HTTP/2.0"

\* C1 (as stated): every response of server.py, whatever the request and
\* the status code, carries the five injected headers with the fixed values.
C1_EveryResponseCarriesInjected ==
  LastResponded("server") => InjectedOf(LastResp("server")) = InjectedHeaders

\* C1 (amended): every response of server.py that has a status line and a
\* header block carries the five injected headers, each once, in the fixed
\* order and with the fixed values, whatever the request and the status
\* code; the responses written in the HTTP/0.9 form (to a request line with
\* no version word or with a rejected version) have no header at all.
C1_HeaderBlocksCarryInjected ==
  LastResponded("server") =>
    /\ LastResp("server").head = ~HTTP09Form(lastReq)
    /\ LastResp("server").head => InjectedOf(LastResp("server")) = InjectedHeaders
    /\ ~LastResp("server").head => LastResp("server").headers = <<>>

\* C1 witness: server.py has answered a request for a missing file with a
\* 404 that carries the injected headers.
C1_Witness ==
  /\ LastResponded("server")
  /\ LastResp("server").head
  /\ LastResp("server").code = 404
  /\ InjectedOf(LastResp("server")) = InjectedHeaders

\* C2: no response of simple-server.py, whatever the request and the status
\* code, has a header named like one of the five injected headers.
C2_SimpleNeverInjects ==
  LastResponded("simple") =>
    \A i \in 1..Len(LastResp("simple").headers) :
      LastResp("simple").headers[i].name \notin InjectedNames

\* C2 witness: simple-server.py has served a file with status 200 and its
\* base headers.
C2_Witness ==
  /\ LastResponded("simple")
  /\ LastResp("simple").code = 200
  /\ LastResp("simple").body.kind = "file"
  /\ Len(LastResp("simple").headers) = 5

Has(events, e) == \E i \in 1..Len(events) : events[i] = e

Accepted(p) == \E c \in ConnIds : p.attempts[c] > 0

\* C3: when binding port 8080 fails, the process is gone at once with a
\* non-zero status: one bind call only, no other port, no listener, the
\* browser not opened and no connection ever accepted.
C3_BindFailureIsFatal ==
  \A v \in Variants :
    Has(proc[v].events, "bind_failed") =>
      /\ proc[v].pc = "exited"
      /\ proc[v].exit = "error"
      /\ proc[v].listener # "listening"
      /\ proc[v].binds = 1
      /\ proc[v].port = 0
      /\ proc[v].opens = 0
      /\ ~Accepted(proc[v])
      /\ proc[v].backlog = <<>>

\* C3 witness: both scripts found the port occupied and have exited.
C3_Witness ==
  \A v \in Variants :
    /\ Has(proc[v].events, "bind_failed")
    /\ proc[v].exit = "error"

\* C4 (as stated): an interrupt received once the listener is bound is a
\* normal shutdown: the process never dies of the KeyboardInterrupt after
\* the bind, and an exit after an interrupt prints the shutdown message.
C4_InterruptAfterBindIsCleanShutdown ==
  \A v \in Variants :
    (proc[v].pc = "exited" /\ Has(proc[v].events, "bind")
       /\ proc[v].exit \in {"success", "sigint"})
      => (proc[v].exit = "success" /\ proc[v].stopMsg)

\* The startup steps of a run, in order.
StartupOrder == <<"chdir", "bind", "browser", "serve">>

IsPrefix(s, t) == Len(s) <= Len(t) /\ s = SubSeq(t, 1, Len(s))

\* C5: the startup steps happen in the order chdir, bind, browser open,
\* accept loop; the browser is opened at most once, only after a
\* successful bind, at http://localhost:8080, and no connection is
\* accepted before the browser open was invoked from the script directory.
C5_StartupOrder ==
  \A v \in Variants :
    /\ \/ IsPrefix(proc[v].events, StartupOrder)
       \/ proc[v].events = <<"chdir", "bind_failed">>
    /\ Has(proc[v].events, "chdir") <=> proc[v].cwd = "scriptdir"
    /\ proc[v].opens <= 1
    /\ proc[v].opens = 1 <=> Has(proc[v].events, "browser")
    /\ proc[v].opens = 1 =>
         /\ proc[v].port = PORT
         /\ proc[v].url = [host |-> "localhost", port |-> PORT]
    /\ proc[v].pc \in {"serving", "handling"} => proc[v].events = StartupOrder
    /\ Accepted(proc[v]) => proc[v].events = StartupOrder /\ proc[v].opens = 1

\* C5 witness: a request has been answered by a server that went through
\* all four startup steps.
C5_Witness ==
  \A v \in Variants :
    /\ proc[v].events = StartupOrder
    /\ proc[v].opens = 1
    /\ \E c \in ConnIds : proc[v].log[c] = "response"

\* C10: in no terminal state of the process is the listener still open:
\* every way out of main() after the bind closes it.
C10_ListenerClosedOnExit ==
  \A v \in Variants :
    proc[v].pc = "exited" =>
      /\ proc[v].listener # "listening"
      /\ Has(proc[v].events, "bind") => proc[v].listener = "closed"
      /\ proc[v].backlog = <<>>

\* C10 witness: main() was left by an exception raised after the bind (a
\* status line that could not be printed, or the browser open), and the
\* listener is closed.
C10_Witness ==
  \E v \in Variants :
    /\ proc[v].pc = "exited"
    /\ proc[v].exit = "error"
    /\ Has(proc[v].events, "bind")
    /\ proc[v].listener = "closed"

\* C6: a request that fails (an error status, a malformed request, an
\* exception raised in the handler, a client that went away) never ends
\* the process: the step that finishes a request leaves the server in its
\* accept loop with the listener open, and no connection is handled twice.
C6_RequestFailureNotFatal ==
  [][ \A v \in Variants :
        /\ \A c \in ConnIds : proc'[v].attempts[c] <= 1
        /\ (proc[v].pc = "handling"
              /\ proc'[v].log[proc[v].cur] \in {"response", "closed", "exception"})
             => /\ proc'[v].pc = "serving"
                /\ proc'[v].listener = "listening"
                /\ proc'[v].exit = "running"
                /\ proc'[v].attempts = proc[v].attempts
                /\ proc'[v].backlog = proc[v].backlog ]_vars

\* C6 witness: after a handler raised, and after a 404, a later connection
\* got its response and the server is back in the accept loop.
C6_Witness ==
  \A v \in Variants :
    /\ proc[v].pc = "serving"
    /\ proc[v].log[1] = "exception"
    /\ proc[v].log[2] = "response"
    /\ LastResponded(v)
    /\ LastResp(v).code = 404

\* A GET request line the library accepts.
WellFormedGet(r) ==
  /\ r.raw = "line"
  /\ r.method = "GET"
  /\ \/ r.nwords = 2
     \/ r.nwords = 3 /\ r.version \in {"HTTP/1.0", "HTTP/1.1"}

\* What the request path names under the served root (the directory of the
\* script): the node at the normalised path.  A path with an encoded NUL
\* byte, or a trailing slash after something that is no directory, names
\* nothing.
Target(r) ==
  LET node == FsNode(normpath(r.path.segs, <<>>)) IN
  IF r.path.nul \/ (r.path.slash /\ node.kind # "dir") THEN NoNode ELSE node

\* The handlers' answer to lastReq was written (the client was there).
Answered(v) == lastReq.raw # "none" /\ proc[v].last.kind # "disconnected"

Lifecycle(p) ==
  [pc |-> p.pc, cwd |-> p.cwd, listener |-> p.listener, binds |-> p.binds,
   port |-> p.port, url |-> p.url, exit |-> p.exit, opens |-> p.opens,
   events |-> p.events, stopMsg |-> p.stopMsg, backlog |-> p.backlog,
   cur |-> p.cur, attempts |-> p.attempts, log |-> p.log,
   outcome |-> p.last.kind]

\* Same status line, same body, and the headers of a are those of b
\* followed by extra.
SameButHeaders(a, b, extra) ==
  /\ a.head = b.head /\ a.code = b.code /\ a.reason = b.reason
  /\ a.blank = b.blank /\ a.body = b.body
  /\ a.headers = b.headers \o extra

\* C8 (as stated): under the same events the two scripts go through the
\* same states, and every response of server.py is the response of
\* simple-server.py with the five injected headers added after the base
\* headers.
C8_VariantsDifferByInjectedOnly ==
  /\ Lifecycle(proc["server"]) = Lifecycle(proc["simple"])
  /\ LastResponded("server") =>
       SameButHeaders(LastResp("server"), LastResp("simple"), InjectedHeaders)

\* C8 (amended): under the same events the two scripts go through the same
\* states; a response that has a header block is, from server.py, the
\* response of simple-server.py with the five injected headers added once
\* each after the base headers; a response in the HTTP/0.9 form (no status
\* line, no headers) is the same from both.
C8_VariantsDifferByInjectedInHeaderBlocks ==
  /\ Lifecycle(proc["server"]) = Lifecycle(proc["simple"])
  /\ LastResponded("server") =>
       /\ LastResponded("simple")
       /\ LastResp("server").head =>
            SameButHeaders(LastResp("server"), LastResp("simple"), InjectedHeaders)
       /\ ~LastResp("server").head => LastResp("server") = LastResp("simple")
       /\ \A i \in 1..Len(LastResp("simple").headers) :
            LastResp("simple").headers[i].name \notin InjectedNames

\* C8 witness: both scripts redirected GET /docs with a 301; server.py's
\* response has the base headers of simple-server.py and five more.
C8_Witness ==
  /\ LastResponded("server") /\ LastResponded("simple")
  /\ LastResp("simple").code = 301
  /\ Len(LastResp("simple").headers) = 4
  /\ Len(LastResp("server").headers) = 9
  /\ proc["server"].pc = "serving" /\ proc["simple"].pc = "serving"

\* C9 (as stated): the handling of one connection never waits on another:
\* a connection whose client has sent its request is never left waiting
\* while the server sits in the handler of a connection whose client has
\* sent nothing.
C9_NoConnectionWaitsOnAnother ==
  \A v \in Variants :
    ~ /\ proc[v].pc = "handling"
      /\ proc[v].cur \notin sent
      /\ \E i \in 1..Len(proc[v].backlog) : proc[v].backlog[i] \in sent
====
